---- MODULE Spec2Model ----
(***************************************************************************)
(* Model of the timed-quiz service of src/app.py: the quizzes collection,  *)
(* the four request handlers and the periodic status updater.              *)
(*                                                                         *)
(* Time is counted in minutes.  Text is a sequence of one-character        *)
(* strings, so that splitting on commas and stripping blanks are computed. *)
(* The request-rate limiter and the documentation page are not modelled.   *)
(***************************************************************************)
EXTENDS Integers, Sequences, FiniteSets, TLC

VARIABLES quizzes, clock, rpc, rnow, resp

vars == <<quizzes, clock, rpc, rnow, resp>>

(* ------------------------------ bounds --------------------------------- *)
MaxQuizzes == 2
MaxStored  == 1
MaxDate    == 2
MaxClock   == 7

(* --------------------------- program constants ------------------------- *)
GraceMinutes == 5

JSON  == "application/json"
FORM  == "application/x-www-form-urlencoded"
PLAIN == "text/plain"

(* ------------------------------ text ----------------------------------- *)
RECURSIVE Strip(_)
Strip(s) ==
  IF s # <<>> /\ Head(s) = " " THEN Strip(Tail(s))
  ELSE IF s # <<>> /\ s[Len(s)] = " " THEN Strip(SubSeq(s, 1, Len(s) - 1))
  ELSE s

RECURSIVE Split(_)
Split(s) ==
  IF \E i \in 1..Len(s) : s[i] = ","
  THEN LET i == CHOOSE k \in 1..Len(s) :
                  s[k] = "," /\ \A j \in 1..(k - 1) : s[j] # ","
       IN  <<SubSeq(s, 1, i - 1)>> \o Split(SubSeq(s, i + 1, Len(s)))
  ELSE <<s>>

ParseOptions(s) == [i \in 1..Len(Split(s)) |-> Strip(Split(s)[i])]

StrNone == <<"N", "o", "n", "e">>

(* ----------------------------- requests -------------------------------- *)
Txt(present, s) == [present |-> present, s |-> s]

RawOptions ==
  { Txt(FALSE, <<>>),
    Txt(TRUE, <<>>),
    Txt(TRUE, <<"a">>),
    Txt(TRUE, <<"a", ",">>),
    Txt(TRUE, <<" ", "a", ",", "b", " ">>) }

RawInts ==
  { [kind |-> k, n |-> 0] : k \in {"missing", "empty", "garbage"} }
    \cup { [kind |-> "int", n |-> n] : n \in 0..3 }

RawDates ==
  { [kind |-> k, t |-> 0, aware |-> FALSE] : k \in {"missing", "empty", "garbage"} }
    \cup { [kind |-> "iso", t |-> t, aware |-> a] : t \in 0..MaxDate, a \in BOOLEAN }

IntOk(r)  == r.kind = "int"
DateOk(r) == r.kind = "iso"

Inputs ==
  [ctype : {JSON, FORM}, data_none : {FALSE}, question : {"q"},
   options : RawOptions, rightAnswer : RawInts,
   startDate : RawDates, endDate : RawDates]
    \cup
  [ctype : {JSON, PLAIN}, data_none : {TRUE}, question : {"q"},
   options : {Txt(TRUE, <<"a", ",">>)}, rightAnswer : {[kind |-> "int", n |-> 1]},
   startDate : {[kind |-> "iso", t |-> 0, aware |-> FALSE]},
   endDate : {[kind |-> "iso", t |-> 1, aware |-> FALSE]}]

LifecycleInputs ==
  { in \in Inputs :
      /\ in.ctype = JSON /\ ~in.data_none
      /\ in.options = Txt(TRUE, <<" ", "a", ",", "b", " ">>)
      /\ IntOk(in.rightAnswer)
      /\ DateOk(in.startDate) /\ ~in.startDate.aware
      /\ DateOk(in.endDate) /\ ~in.endDate.aware }

IdArgs ==
  { [valid |-> FALSE, n |-> 0] }
    \cup { [valid |-> TRUE, n |-> i] : i \in 1..(MaxQuizzes + 1) }

NoArg == [valid |-> TRUE, n |-> 0]

(* ----------------------------- responses ------------------------------- *)
NoResp == [op |-> "none", arg |-> NoArg, code |-> 0, body |-> <<>>]

Reply(op, arg, code, body) == [op |-> op, arg |-> arg, code |-> code, body |-> body]

\* abort(400, ...) and abort(404, ...) pass through handle_error
handle_error(code, description) == [code |-> code, body |-> [error |-> description]]

\* any other abort, and any uncaught exception, gets the framework's own page
DefaultPage(code, name) == [code |-> code, body |-> [html |-> name]]

InternalServerError == DefaultPage(500, "Internal Server Error")

(* ------------------------------- store --------------------------------- *)
\* slip: the document is stored with the flag already on
Quiz_active(question, options, right_answer, start_date, end_date) ==
  [id |-> "None", question |-> question, options |-> options,
   right_answer |-> right_answer, start_date |-> start_date,
   end_date |-> end_date, status |-> TRUE]

Quiz(question, options, right_answer, start_date, end_date) ==
  [id |-> "None", question |-> question, options |-> options,
   right_answer |-> right_answer, start_date |-> start_date,
   end_date |-> end_date, status |-> FALSE]

insert_one(qs, doc) ==
  Append(qs, [_id |-> Len(qs) + 1] @@ doc)

\* slip: the projection keeps the answer
Project_full(quiz) ==
  [id |-> quiz._id, question |-> quiz.question, options |-> quiz.options,
   right_answer |-> quiz.right_answer]

Project(quiz) ==
  [id |-> quiz._id, question |-> quiz.question, options |-> quiz.options]

\* slip: the listing trusts the cached flag
InWindow_cached(quiz, now) == quiz.status

InWindow(quiz, now) == quiz.start_date <= now /\ quiz.end_date >= now

(* ----------------------------- create_quiz ----------------------------- *)
\* lines 119-137: the checks on the parsed fields, then the insert
\* (line 122 compares two datetimes: Python raises TypeError when exactly one
\* of them carries a UTC offset, and nothing catches it)
Validate(qs, question, options, right_answer, start, end) ==
  IF right_answer < 1 \/ right_answer > Len(options)
  THEN [out |-> handle_error(400, "Invalid rightAnswer index"), store |-> qs]
  ELSE IF start.aware # end.aware
  THEN [out |-> InternalServerError, store |-> qs]
  ELSE IF start.t >= end.t
  THEN [out |-> handle_error(400, "End date must be a date after the start date"),
        store |-> qs]
  ELSE [out |-> [code |-> 201, body |-> [id |-> Len(qs) + 1]],
        store |-> insert_one(qs, Quiz(question, options, right_answer, start.t, end.t))]

create_quiz(qs, in) ==
  IF in.ctype = JSON
  THEN IF in.data_none
       THEN [out |-> handle_error(400, "Invalid request body. JSON data expected."),
             store |-> qs]
       ELSE IF \/ ~in.options.present
               \/ ~IntOk(in.rightAnswer)
               \/ ~DateOk(in.startDate)
               \/ ~DateOk(in.endDate)
       THEN [out |-> InternalServerError, store |-> qs]
       ELSE Validate(qs, in.question, ParseOptions(in.options.s),
                     in.rightAnswer.n, in.startDate, in.endDate)
  ELSE IF in.ctype = FORM
  THEN IF \/ in.rightAnswer.kind = "empty"
          \/ in.startDate.kind = "empty"
          \/ in.endDate.kind = "empty"
       THEN [out |-> handle_error(400, "Invalid request body. Missing Data."),
             store |-> qs]
       ELSE IF \/ ~IntOk(in.rightAnswer)
               \/ ~DateOk(in.startDate)
               \/ ~DateOk(in.endDate)
       THEN [out |-> InternalServerError, store |-> qs]
       ELSE Validate(qs, in.question,
                     ParseOptions(IF in.options.present THEN in.options.s ELSE StrNone),
                     in.rightAnswer.n, in.startDate, in.endDate)
  ELSE [out |-> handle_error(400, "Unsupported Media Type or empty body"), store |-> qs]

(* ------------------------------ queries -------------------------------- *)
RECURSIVE Find(_, _)
Find(qs, now) ==
  IF qs = <<>> THEN <<>>
  ELSE (IF InWindow(Head(qs), now) THEN <<Project(Head(qs))>> ELSE <<>>)
         \o Find(Tail(qs), now)

get_active_quiz(qs, now) == [code |-> 200, body |-> Find(qs, now)]

get_all_quizzes(qs) == [code |-> 200, body |-> [i \in 1..Len(qs) |-> Project(qs[i])]]

\* slip: <= for < in the grace-period test
get_quiz_result_inclusive(qs, arg, now) ==
  IF ~arg.valid THEN handle_error(400, "Invalid quiz ID")
  ELSE IF arg.n \notin 1..Len(qs) THEN handle_error(404, "Quiz result not found")
  ELSE IF now <= qs[arg.n].end_date + GraceMinutes
  THEN DefaultPage(403, "Forbidden")
  ELSE [code |-> 200, body |-> [result |-> qs[arg.n].right_answer]]

get_quiz_result(qs, arg, now) ==
  IF ~arg.valid THEN handle_error(400, "Invalid quiz ID")
  ELSE IF arg.n \notin 1..Len(qs) THEN handle_error(404, "Quiz result not found")
  ELSE IF now < qs[arg.n].end_date + GraceMinutes
  THEN DefaultPage(403, "Forbidden")
  ELSE [code |-> 200, body |-> [result |-> qs[arg.n].right_answer]]

(* -------------------------- update_quiz_status ------------------------- *)
\* slip: the first update flips the flag instead of setting it
UpdateStarted_flip(qs, now) ==
  [i \in 1..Len(qs) |->
     IF qs[i].start_date <= now THEN [qs[i] EXCEPT !.status = ~@] ELSE qs[i]]

UpdateStarted(qs, now) ==
  [i \in 1..Len(qs) |->
     IF qs[i].start_date <= now THEN [qs[i] EXCEPT !.status = TRUE] ELSE qs[i]]

UpdateEnded(qs, now) ==
  [i \in 1..Len(qs) |->
     IF qs[i].end_date <= now THEN [qs[i] EXCEPT !.status = FALSE] ELSE qs[i]]

update_quiz_status(qs, now) == UpdateEnded(UpdateStarted(qs, now), now)

(* ------------------------------ actions -------------------------------- *)
Init ==
  /\ quizzes = <<>>
  /\ clock = 0
  /\ rpc = "idle"
  /\ rnow = 0
  /\ resp = NoResp

Post(in) ==
  LET r == create_quiz(quizzes, in) IN
  /\ quizzes' = r.store
  /\ resp' = Reply("create", NoArg, r.out.code, r.out.body)
  /\ UNCHANGED <<clock, rpc, rnow>>

CreateQuiz ==
  /\ Len(quizzes) < MaxQuizzes
  /\ \E in \in LifecycleInputs : Post(in)

SubmitQuiz ==
  /\ Len(quizzes) < MaxStored
  /\ \E in \in Inputs : Post(in)

ListActiveQuizzes ==
  LET r == get_active_quiz(quizzes, clock) IN
  /\ resp' = Reply("active", NoArg, r.code, r.body)
  /\ UNCHANGED <<quizzes, clock, rpc, rnow>>

ListAllQuizzes ==
  LET r == get_all_quizzes(quizzes) IN
  /\ resp' = Reply("all", NoArg, r.code, r.body)
  /\ UNCHANGED <<quizzes, clock, rpc, rnow>>

GetResult ==
  \E arg \in IdArgs :
    LET r == get_quiz_result(quizzes, arg, clock) IN
    /\ resp' = Reply("result", arg, r.code, r.body)
    /\ UNCHANGED <<quizzes, clock, rpc, rnow>>

\* line 50: the job reads the clock
ReconcilerReadNow ==
  /\ rpc = "idle"
  /\ rpc' = "set_started"
  /\ rnow' = clock
  /\ resp' = NoResp
  /\ UNCHANGED <<quizzes, clock>>

\* lines 53-55
ReconcilerSetStarted ==
  /\ rpc = "set_started"
  /\ quizzes' = UpdateStarted(quizzes, rnow)
  /\ rpc' = "set_ended"
  /\ resp' = NoResp
  /\ UNCHANGED <<clock, rnow>>

\* lines 58-60
ReconcilerSetEnded ==
  /\ rpc = "set_ended"
  /\ quizzes' = UpdateEnded(quizzes, rnow)
  /\ rpc' = "idle"
  /\ rnow' = 0
  /\ resp' = NoResp
  /\ UNCHANGED clock

Tick ==
  /\ clock < MaxClock
  /\ clock' = clock + 1
  /\ resp' = NoResp
  /\ UNCHANGED <<quizzes, rpc, rnow>>

Next ==
  \/ CreateQuiz
  \/ ListActiveQuizzes
  \/ ListAllQuizzes
  \/ GetResult
  \/ ReconcilerReadNow
  \/ ReconcilerSetStarted
  \/ ReconcilerSetEnded
  \/ Tick

Spec == Init /\ [][Next]_vars

NextValidation ==
  \/ SubmitQuiz
  \/ ListAllQuizzes
  \/ GetResult
  \/ Tick

SpecValidation == Init /\ [][NextValidation]_vars

(* ============================== properties ============================= *)
Stored == 1..Len(quizzes)

Immutable(q) ==
  <<q._id, q.question, q.options, q.right_answer, q.start_date, q.end_date>>

\* the options text create_quiz splits, when there is one
HasOptionsText(in) == in.ctype = FORM \/ in.options.present

OptionsOf(in) ==
  ParseOptions(IF in.options.present THEN in.options.s ELSE StrNone)

\* C1: a result request for a stored quiz is refused with 403 while
\* now < end_date + 5 minutes and answered with the stored right_answer from
\* end_date + 5 minutes on, whatever the status flag and the updater's position.
ResultGate ==
  (resp.op = "result" /\ resp.arg.valid /\ resp.arg.n \in Stored) =>
    LET q == quizzes[resp.arg.n] IN
    /\ clock < q.end_date + GraceMinutes => resp.code = 403
    /\ clock >= q.end_date + GraceMinutes =>
         /\ resp.code = 200
         /\ DOMAIN resp.body = {"result"}
         /\ resp.body.result = q.right_answer

\* the answer is disclosed exactly at end_date + 5 while the flag is stale
ResultGateWitness ==
  /\ resp.op = "result" /\ resp.code = 200
  /\ resp.arg.n \in Stored
  /\ clock = quizzes[resp.arg.n].end_date + GraceMinutes
  /\ quizzes[resp.arg.n].status = TRUE
  /\ rpc # "idle"

\* C2: the active listing is exactly the stored quizzes with
\* start_date <= now <= end_date, each once, whatever the status flags say
\* and wherever the updater stands.
ActiveListingExact ==
  resp.op = "active" =>
    /\ resp.code = 200
    /\ { resp.body[k] : k \in DOMAIN resp.body } =
         { [id |-> i, question |-> quizzes[i].question, options |-> quizzes[i].options] :
             i \in { j \in Stored : quizzes[j].start_date <= clock
                                     /\ clock <= quizzes[j].end_date } }
    /\ Len(resp.body) =
         Cardinality({ j \in Stored : quizzes[j].start_date <= clock
                                       /\ clock <= quizzes[j].end_date })

\* a listing taken in the middle of an updater run, at the last instant of a
\* window, with one flag wrongly off and another wrongly on
ActiveListingWitness ==
  /\ resp.op = "active" /\ rpc = "set_ended"
  /\ \E i \in Stored :
       /\ clock = quizzes[i].end_date
       /\ ~quizzes[i].status
       /\ \E k \in DOMAIN resp.body : resp.body[k].id = i
  /\ \E j \in Stored :
       /\ quizzes[j].end_date < clock
       /\ quizzes[j].status
       /\ \A k \in DOMAIN resp.body : resp.body[k].id # j

\* C3: a creation request whose two dates parse with start >= end is
\* answered 400 and leaves the collection as it was.
DateOrderRejected ==
  [][\A in \in Inputs :
       ( /\ DateOk(in.startDate) /\ DateOk(in.endDate)
         /\ in.startDate.t >= in.endDate.t
         /\ Post(in) )
       => (resp'.code = 400 /\ quizzes' = quizzes)]_vars

\* C4: every stored quiz has 1 <= right_answer <= len(options); a creation
\* request whose rightAnswer is an integer outside that range is answered 400
\* and inserts nothing; no step changes a stored right_answer or options.
RightAnswerInRange ==
  [][ /\ \A i \in 1..Len(quizzes') :
           /\ 1 <= quizzes'[i].right_answer
           /\ quizzes'[i].right_answer <= Len(quizzes'[i].options)
      /\ \A i \in Stored :
           /\ i <= Len(quizzes')
           /\ quizzes'[i].right_answer = quizzes[i].right_answer
           /\ quizzes'[i].options = quizzes[i].options
      /\ \A in \in Inputs :
           ( /\ IntOk(in.rightAnswer) /\ HasOptionsText(in)
             /\ (in.rightAnswer.n < 1 \/ in.rightAnswer.n > Len(OptionsOf(in)))
             /\ Post(in) )
           => (resp'.code = 400 /\ quizzes' = quizzes) ]_vars

\* C5: every stored quiz has at least 2 options, none of them empty.
OptionsWellFormed ==
  \A i \in Stored :
    /\ Len(quizzes[i].options) >= 2
    /\ \A k \in 1..Len(quizzes[i].options) : quizzes[i].options[k] # <<>>

\* C6: a creation request whose rightAnswer is not an integer, or one of whose
\* dates is not a timestamp, is answered 400 and leaves the collection as it was.
MalformedRejected ==
  [][\A in \in Inputs :
       ( /\ (~IntOk(in.rightAnswer) \/ ~DateOk(in.startDate) \/ ~DateOk(in.endDate))
         /\ Post(in) )
       => (resp'.code = 400 /\ quizzes' = quizzes)]_vars

\* C7: a response carries a right_answer only when it answers a result request
\* for a stored quiz at now >= end_date + 5 minutes; the listings carry id,
\* question and options and nothing else, a creation carries the id alone.
NoAnswerLeak ==
  /\ resp.op \in {"active", "all"} =>
       \A k \in DOMAIN resp.body :
         DOMAIN resp.body[k] = {"id", "question", "options"}
  /\ resp.op = "create" =>
       IF resp.code = 201 THEN DOMAIN resp.body = {"id"}
       ELSE DOMAIN resp.body \in {{"error"}, {"html"}}
  /\ resp.op = "result" =>
       IF resp.code = 200
       THEN /\ DOMAIN resp.body = {"result"}
            /\ resp.arg.valid /\ resp.arg.n \in Stored
            /\ clock >= quizzes[resp.arg.n].end_date + GraceMinutes
       ELSE DOMAIN resp.body \in {{"error"}, {"html"}}

\* the full listing shows two quizzes whose answers are still withheld, one
\* open and one not even started
NoAnswerLeakWitness ==
  /\ resp.op = "all" /\ Len(resp.body) = 2
  /\ \E i \in Stored : clock < quizzes[i].start_date
  /\ \E j \in Stored : quizzes[j].start_date <= clock /\ clock <= quizzes[j].end_date

\* C8: a stored quiz keeps its id, question, options, right_answer and dates
\* and is never removed; the three queries leave the collection unchanged;
\* only an updater step changes a status; a creation appends one quiz with
\* status false and touches no other.
StoreFrame ==
  [][ /\ Len(quizzes') >= Len(quizzes)
      /\ \A i \in Stored : Immutable(quizzes'[i]) = Immutable(quizzes[i])
      /\ resp'.op \in {"active", "all", "result"} => quizzes' = quizzes
      /\ (\E i \in Stored : quizzes'[i].status # quizzes[i].status) =>
           /\ rpc' # rpc
           /\ Len(quizzes') = Len(quizzes)
      /\ Len(quizzes') > Len(quizzes) =>
           /\ resp'.op = "create" /\ resp'.code = 201
           /\ Len(quizzes') = Len(quizzes) + 1
           /\ quizzes'[Len(quizzes')].status = FALSE
           /\ SubSeq(quizzes', 1, Len(quizzes)) = quizzes ]_vars

\* a creation that lands next to a quiz the updater has switched on
StoreFrameWitness ==
  /\ resp.op = "create" /\ resp.code = 201
  /\ Len(quizzes) = 2
  /\ quizzes[1].status = TRUE
  /\ quizzes[2].status = FALSE
  /\ resp.body.id = 2

\* C9: after an updater run at clock value now, every stored quiz has
\* status = true iff start_date <= now <= end_date.
ReconcilerExact ==
  \A i \in Stored :
    update_quiz_status(quizzes, clock)[i].status
      = (quizzes[i].start_date <= clock /\ clock <= quizzes[i].end_date)

\* C10: two updater runs in a row with the same now leave every quiz as one
\* run does.
ReconcilerIdempotent ==
  \A now \in 0..MaxClock :
    update_quiz_status(update_quiz_status(quizzes, now), now)
      = update_quiz_status(quizzes, now)

\* the updater has just finished a run that switched one quiz on and another
\* off again; a second run at the same now finds nothing to change
ReconcilerIdempotentWitness ==
  /\ rpc = "idle" /\ resp = NoResp
  /\ \E i \in Stored : quizzes[i].status /\ quizzes[i].end_date > clock
  /\ \E j \in Stored : ~quizzes[j].status /\ quizzes[j].end_date <= clock
  /\ update_quiz_status(quizzes, clock) = quizzes

====
